---- MODULE Spec2Model ----
(***************************************************************************)
(* Model of vercel-app/python-api/inference_api.py: the FastAPI inference  *)
(* server for MRI brain tumour segmentation.                               *)
(*                                                                         *)
(* Four specifications share the module:                                   *)
(*   Spec        the server: startup_event, the process-wide model handle  *)
(*               and the /predict handler, one atomic step per stretch of  *)
(*               handler code between two awaits (the handlers are         *)
(*               coroutines of one event loop);                            *)
(*   SpecNorm    preprocess_mri applied once and twice to a volume;        *)
(*   SpecResize  resize_volume applied to a volume of a given shape;       *)
(*   SpecStats   the statistics block of predict applied to a prediction.  *)
(*                                                                         *)
(* Representation of arrays.  A flattened array is kept run-length         *)
(* encoded: a sequence of runs <<value, count>>.  Intensities are exact    *)
(* rationals num/den with one denominator per volume, so that the          *)
(* thresholds 1e-6 and 0.05 of the code are compared exactly.              *)
(***************************************************************************)
EXTENDS Integers, Sequences, FiniteSets, TLC

VARIABLES model, loadCalls, loadsDone, started, pc, trace,
          vol, norm1, norm2, normPc,
          shapeIn, resized, resizePc,
          pred, stat, statPc

serverVars == <<model, loadCalls, loadsDone, started, pc, trace>>
normVars == <<vol, norm1, norm2, normPc>>
resizeVars == <<shapeIn, resized, resizePc>>
statsVars == <<pred, stat, statPc>>
vars == <<model, loadCalls, loadsDone, started, pc, trace, vol, norm1, norm2, normPc, shapeIn, resized, resizePc, pred, stat, statPc>>

(***************************************************************************)
(* Bounds of the model.                                                    *)
(***************************************************************************)
MaxRequests == 2
MaxVolRuns == 4
MaxPredRuns == 3
MaxDim == 5
ZoomPrecision == 1048576

(***************************************************************************)
(* Program constants.                                                      *)
(***************************************************************************)
None == "None"
Loaded == "Loaded"
target_shape == <<128, 128, 96>>
\* sorted_flat[int(len * 0.01)] and sorted_flat[int(len * 0.99)]
PercentLow == 1
PercentHigh == 99
\* range_val < 1e-6, range_val = 1e-6: the threshold is 1 / RangeFloorInv
RangeFloorInv == 1000000
\* normalized < 0.05: the threshold is 1 / NoiseFloorInv
NoiseFloorInv == 20
Modalities == <<"t1", "t1ce", "t2", "flair">>
NumModalities == Len(Modalities)

(***************************************************************************)
(* Arithmetic helpers.                                                     *)
(***************************************************************************)
RECURSIVE GCD(_, _)
GCD(a, b) == IF b = 0 THEN a ELSE GCD(b, a % b)

Min(S) == CHOOSE x \in S : \A y \in S : x <= y
Max(S) == CHOOSE x \in S : \A y \in S : x >= y

RECURSIVE SumCounts(_)
SumCounts(runs) == IF runs = <<>> THEN 0 ELSE runs[1][2] + SumCounts(Tail(runs))

RECURSIVE Product(_)
Product(s) == IF s = <<>> THEN 1 ELSE s[1] * Product(Tail(s))

(***************************************************************************)
(* preprocess_mri, lines 65-84.                                            *)
(* A volume is [den |-> D, runs |-> <<<<n1, c1>>, ...>>]: c1 voxels of     *)
(* intensity n1 / D, then c2 voxels of n2 / D, ...                         *)
(***************************************************************************)
VolumeSize(v) == SumCounts(v.runs)

\* np.sort(flat)[k]: the least value x with more than k elements <= x
SortedAt(v, k) ==
    LET nums == {v.runs[i][1] : i \in 1..Len(v.runs)}
        CountLE(x) == SumCounts(SelectSeq(v.runs, LAMBDA r : r[1] <= x))
    IN  Min({x \in nums : CountLE(x) > k})

\* int(len(sorted_flat) * 0.01): the product rounds to the exact quotient, int() truncates
min_percentile(v) == SortedAt(v, (VolumeSize(v) * PercentLow) \div 100)
max_percentile(v) == SortedAt(v, (VolumeSize(v) * PercentHigh) \div 100)

\* range_val < 1e-6 for range_val = (p99 - p1) / den
NearConstant(v) == (max_percentile(v) - min_percentile(v)) * RangeFloorInv < v.den

\* range_val after lines 74-76, as the rational num / den
range_val(v) ==
    IF NearConstant(v)
    THEN [num |-> 1, den |-> RangeFloorInv]
    ELSE [num |-> max_percentile(v) - min_percentile(v), den |-> v.den]

\* np.clip(volume, min_percentile, max_percentile) on one value
clip(x, lo, hi) == IF x < lo THEN lo ELSE IF x > hi THEN hi ELSE x

\* faulty variant: the noise floor is not applied
noise_floor_skipped(num, den) == [num |-> num, den |-> den]

\* faulty variant: values under the noise floor are raised to it (to the next
\* multiple of 1/den) instead of zeroed
noise_floor_clamped(num, den) ==
    IF num * NoiseFloorInv < den
    THEN [num |-> (den + NoiseFloorInv - 1) \div NoiseFloorInv, den |-> den]
    ELSE [num |-> num, den |-> den]

\* normalized[normalized < 0.05] = 0 on one value num / den (den > 0)
noise_floor(num, den) ==
    IF num * NoiseFloorInv < den THEN [num |-> 0, den |-> den] ELSE [num |-> num, den |-> den]

\* (normalized - min_percentile) / range_val on one clipped value c / v.den:
\* ((c - p1) / v.den) / (rn / rd) = (c - p1) * rd / (v.den * rn), reduced by
\* gcd(rd, v.den) so that the numbers stay small
rescale(c, v) ==
    LET r == range_val(v)
        g == GCD(r.den, v.den)
    IN  [num |-> (c - min_percentile(v)) * (r.den \div g), den |-> (v.den \div g) * r.num]

\* the volume returned by preprocess_mri: one rational [num, den] per run
preprocess_mri(v) ==
    LET lo == min_percentile(v)
        hi == max_percentile(v)
        one(r) == LET s == rescale(clip(r[1], lo, hi), v)
                  IN  <<noise_floor(s.num, s.den), r[2]>>
    IN  [i \in 1..Len(v.runs) |-> one(v.runs[i])]

\* the output of preprocess_mri as a volume again (the input of a second pass):
\* the values are brought to their least common denominator
RECURSIVE CommonDen(_)
CommonDen(out) ==
    IF out = <<>> THEN 1
    ELSE LET d == out[1][1].den
             rest == CommonDen(Tail(out))
         IN  (d * rest) \div GCD(d, rest)

AsVolume(out) ==
    LET D == CommonDen(out)
    IN  [den |-> D,
         runs |-> [i \in 1..Len(out) |-> <<out[i][1].num * (D \div out[i][1].den), out[i][2]>>]]

\* two outputs of preprocess_mri are equal voxel for voxel
SameVoxels(a, b) ==
    /\ Len(a) = Len(b)
    /\ \A i \in 1..Len(a) :
         /\ a[i][2] = b[i][2]
         /\ a[i][1].num * b[i][1].den = b[i][1].num * a[i][1].den

(***************************************************************************)
(* SpecNorm: preprocess_mri applied to a volume, then to its own output.   *)
(* Intensities are multiples of 1e-8 (near-constant volumes) or integers.  *)
(***************************************************************************)
IntensitySamples == {-50, -47, 0, 200}
IntensityUnits == {1, 100000000}
RunLengths == {1, 100}
VolumeSamples ==
    { [den |-> d, runs |-> rs] :
        d \in IntensityUnits,
        rs \in UNION { [1..n -> IntensitySamples \X RunLengths] : n \in 1..MaxVolRuns } }

NoVolume == <<>>

NormIdle == vol = NoVolume /\ norm1 = NoVolume /\ norm2 = NoVolume /\ normPc = "off"
ResizeIdle == shapeIn = <<>> /\ resized = [raised |-> FALSE, shape |-> <<>>] /\ resizePc = "off"
StatsIdle == pred = <<>> /\ stat = <<>> /\ statPc = "off"
ServerIdle ==
    /\ model = None /\ loadCalls = 0 /\ loadsDone = 0 /\ started = FALSE
    /\ pc = <<>> /\ trace = <<>>

InitNorm ==
    /\ vol \in VolumeSamples
    /\ norm1 = NoVolume /\ norm2 = NoVolume /\ normPc = "raw"
    /\ ServerIdle /\ ResizeIdle /\ StatsIdle

Normalize ==
    /\ normPc = "raw"
    /\ norm1' = preprocess_mri(vol)
    /\ normPc' = "once"
    /\ UNCHANGED <<vol, norm2, serverVars, resizeVars, statsVars>>

Renormalize ==
    /\ normPc = "once"
    /\ norm2' = preprocess_mri(AsVolume(norm1))
    /\ normPc' = "twice"
    /\ UNCHANGED <<vol, norm1, serverVars, resizeVars, statsVars>>

NextNorm == Normalize \/ Renormalize

SpecNorm == InitNorm /\ [][NextNorm]_vars

\* C7: every value preprocess_mri returns lies in [0,1] and is 0 or at least
\* 0.05; on a near-constant volume (p99 - p1 < 1e-6) the range used is 1e-6,
\* so the divisor is never 0.
C7_NormalizedInUnitInterval ==
    normPc # "raw" =>
        /\ range_val(vol).num > 0 /\ range_val(vol).den > 0
        /\ NearConstant(vol) => range_val(vol) = [num |-> 1, den |-> RangeFloorInv]
        /\ \A i \in 1..Len(norm1) :
             LET x == norm1[i][1]
             IN  /\ x.den > 0
                 /\ 0 <= x.num /\ x.num <= x.den
                 /\ (x.num = 0 \/ x.num * NoiseFloorInv >= x.den)

\* a near-constant, not constant, volume normalised to values other than 0,
\* some voxel clipped
C7_Witness ==
    /\ normPc = "once"
    /\ NearConstant(vol)
    /\ \E i \in 1..Len(norm1) : norm1[i][1].num > 0
    /\ \E i \in 1..Len(vol.runs) : vol.runs[i][1] > max_percentile(vol)

AllZero(out) == \A i \in 1..Len(out) : out[i][1].num = 0

\* C8 as stated: a second pass of preprocess_mri over its own output returns
\* that output, voxel for voxel, for every volume.
C8_IdempotentAlways ==
    normPc = "twice" => SameVoxels(norm2, norm1)

\* C8 as amended: a second pass returns the first pass's output whenever the
\* first pass did not apply the range floor (p99 - p1 >= 1e-6) or returned an
\* all-zero volume.
C8_IdempotentUnlessFloored ==
    (normPc = "twice" /\ (~NearConstant(vol) \/ AllZero(norm1))) => SameVoxels(norm2, norm1)

\* a volume above the range floor, with a value suppressed by the noise floor
\* and a value strictly between 0.05 and 1, normalised twice
C8_Witness ==
    /\ normPc = "twice"
    /\ ~NearConstant(vol)
    /\ \E i \in 1..Len(norm1) : norm1[i][1].num > 0 /\ norm1[i][1].num < norm1[i][1].den
    /\ \E i \in 1..Len(norm1) :
         /\ norm1[i][1].num = 0
         /\ vol.runs[i][1] > min_percentile(vol)

(***************************************************************************)
(* resize_volume, lines 86-97.  Only the shape of the result is modelled.  *)
(* The zoom factor target/current is a float: it is kept in fixed point,   *)
(* truncated to a multiple of 1/ZoomPrecision, which errs by more than     *)
(* float64 division does.  zoom() allocates an output of                   *)
(* round(dimension * factor) elements along each axis.                     *)
(***************************************************************************)
zoom_factor(t, c) == (t * ZoomPrecision) \div c

\* faulty variant: the product is truncated, int(dim * factor), not rounded
zoom_output_dim_truncated(c, z) == (c * z) \div ZoomPrecision

\* int(round(dim * factor))
zoom_output_dim(c, z) == (2 * c * z + ZoomPrecision) \div (2 * ZoomPrecision)

\* target_shape[i] for i in range(len(current_shape)) raises IndexError when the
\* volume has more axes than the target
resize_volume(current_shape, target) ==
    IF Len(current_shape) > Len(target)
    THEN [raised |-> TRUE, shape |-> <<>>]
    ELSE [raised |-> FALSE,
          shape |-> [i \in 1..Len(current_shape) |->
                        zoom_output_dim(current_shape[i], zoom_factor(target[i], current_shape[i]))]]

DimSamples == (1..MaxDim) \cup {64, 128, 155, 240}
RankSamples == 1..4
ShapeSamples == UNION { [1..n -> DimSamples] : n \in RankSamples }

InitResize ==
    /\ shapeIn \in ShapeSamples
    /\ resized = [raised |-> FALSE, shape |-> <<>>] /\ resizePc = "start"
    /\ ServerIdle /\ NormIdle /\ StatsIdle

Resize ==
    /\ resizePc = "start"
    /\ resized' = resize_volume(shapeIn, target_shape)
    /\ resizePc' = "done"
    /\ UNCHANGED <<shapeIn, serverVars, normVars, statsVars>>

NextResize == Resize

SpecResize == InitResize /\ [][NextResize]_vars

\* C6: for every 3D input shape with positive dimensions resize_volume returns
\* an array of exactly the target shape (128,128,96).
C6_ResizedShapeIsTarget ==
    (resizePc = "done" /\ Len(shapeIn) = 3) =>
        (~resized.raised /\ resized.shape = <<128, 128, 96>>)

\* a 3D volume resized with one axis larger than the target, one axis of
\* length 1 and one axis whose zoom factor is no integer
C6_Witness ==
    /\ resizePc = "done" /\ Len(shapeIn) = 3
    /\ shapeIn[1] > target_shape[1]
    /\ target_shape[2] % shapeIn[2] # 0 /\ shapeIn[2] < target_shape[2]
    /\ shapeIn[3] = 1

(***************************************************************************)
(* The statistics block of predict, lines 178-213.                         *)
(* A prediction (prediction[0]) is [classes |-> C, runs |-> ...]: each run *)
(* <<scores, count>> stands for count consecutive voxels, in row-major     *)
(* order, whose C class scores are the tuple scores.                       *)
(***************************************************************************)
\* np.argmax over the class axis: the first index of the greatest score
argmax(scores) ==
    LET best == Max({scores[i] : i \in 1..Len(scores)})
    IN  Min({i \in 1..Len(scores) : scores[i] = best}) - 1

\* predicted_classes, flattened: runs <<class id, count>>
predicted_classes(p) == [i \in 1..Len(p.runs) |-> <<argmax(p.runs[i][1]), p.runs[i][2]>>]

\* np.unique(predicted_classes, return_counts=True) as the dict region_counts
region_counts(classes) ==
    [u \in {classes[i][1] : i \in 1..Len(classes)} |->
        SumCounts(SelectSeq(classes, LAMBDA r : r[1] = u))]

\* dict.get(key, default)
Get(d, k, default) == IF k \in DOMAIN d THEN d[k] ELSE default

total_voxels(shape) == shape[1] * shape[2] * shape[3]

\* faulty variant: the count of class 1 is subtracted instead of the background's
tumor_voxels_minus_class1(rc, total) == total - Get(rc, 1, 0)

tumor_voxels(rc, total) == total - Get(rc, 0, 0)

tumor_labels == (0 :> "Background") @@ (1 :> "NCR/NET") @@ (2 :> "Edema") @@ (3 :> "Enhancing Tumor")

\* faulty variant: a class without a label is skipped
regions_labelled_only(rc, total) ==
    [c \in {k \in DOMAIN rc : k > 0 /\ k \in DOMAIN tumor_labels} |->
        [name |-> tumor_labels[c], voxels |-> rc[c], percentage |-> <<rc[c] * 100, total>>]]

\* the loop of lines 199-206; a percentage is kept as <<numerator, denominator>>
regions(rc, total) ==
    [c \in {k \in DOMAIN rc : k > 0} |->
        [name |-> Get(tumor_labels, c, "Class " \o ToString(c)),
         voxels |-> rc[c],
         percentage |-> <<rc[c] * 100, total>>]]

\* lines 178-213: the fields of the response computed from the prediction
statistics_block(p, shape) ==
    LET classes == predicted_classes(p)
        total == total_voxels(shape)
        rc == region_counts(classes)
        tv == tumor_voxels(rc, total)
    IN  [prediction |-> classes,
         region_counts |-> rc,
         statistics |-> [totalVoxels |-> total,
                         tumorVoxels |-> tv,
                         tumorPercentage |-> <<tv * 100, total>>,
                         regions |-> regions(rc, total)]]

(***************************************************************************)
(* SpecStats: the statistics block applied to class-probability tensors of *)
(* the engine's output shape (128,128,96,C), C = 4 or, for the fallback    *)
(* label, 5.                                                               *)
(***************************************************************************)
GridVoxels == Product(target_shape)
ClassCounts == {4, 5}
OneHot(C, k) == [i \in 1..C |-> IF i = k + 1 THEN 1 ELSE 0]
ScoreSamples(C) ==
    {OneHot(C, k) : k \in 0..(C - 1)}
        \cup {[i \in 1..C |-> 1], [i \in 1..C |-> IF i \in {2, 3} THEN 1 ELSE 0]}

\* where one run of voxels ends and the next begins
CutPoints == {1, GridVoxels \div 3, GridVoxels - 1}

RECURSIVE RunLengthsOf(_, _)
RunLengthsOf(cuts, from) ==
    IF cuts = {} THEN <<GridVoxels - from>>
    ELSE LET c == Min(cuts) IN <<c - from>> \o RunLengthsOf(cuts \ {c}, c)

PredictionsOf(C, maxRuns) ==
    UNION { LET lens == RunLengthsOf(cuts, 0)
            IN  { [classes |-> C, runs |-> [i \in 1..Len(lens) |-> <<sc[i], lens[i]>>]] :
                    sc \in [1..Len(lens) -> ScoreSamples(C)] } :
            cuts \in {cs \in SUBSET CutPoints : Cardinality(cs) < maxRuns} }

PredictionSamples == UNION { PredictionsOf(C, MaxPredRuns) : C \in ClassCounts }

InitStats ==
    /\ pred \in PredictionSamples
    /\ stat = <<>> /\ statPc = "start"
    /\ ServerIdle /\ NormIdle /\ ResizeIdle

Analyze ==
    /\ statPc = "start"
    /\ stat' = statistics_block(pred, target_shape)
    /\ statPc' = "done"
    /\ UNCHANGED <<pred, serverVars, normVars, resizeVars>>

NextStats == Analyze

SpecStats == InitStats /\ [][NextStats]_vars

RECURSIVE SumOver(_, _)
SumOver(f, S) == IF S = {} THEN 0 ELSE LET x == CHOOSE y \in S : TRUE IN f[x] + SumOver(f, S \ {x})

\* the class ids that occur in the segmentation map, and the voxels of a class
ClassesPresent == {argmax(pred.runs[i][1]) : i \in 1..Len(pred.runs)}
VoxelsOfClass(c) == SumCounts(SelectSeq(pred.runs, LAMBDA r : argmax(r[1]) = c))

\* C5: the per-class voxel counts (class 0 included) add up to totalVoxels,
\* tumorVoxels + countOf(class 0) = totalVoxels = 128*128*96, and tumorVoxels
\* is the sum of the voxel counts of the emitted regions.
C5_CountsAddUp ==
    statPc = "done" =>
        LET st == stat.statistics
        IN  /\ st.totalVoxels = 128 * 128 * 96
            /\ SumOver(stat.region_counts, DOMAIN stat.region_counts) = st.totalVoxels
            /\ st.tumorVoxels + VoxelsOfClass(0) = st.totalVoxels
            /\ st.tumorVoxels = SumOver([c \in DOMAIN st.regions |-> st.regions[c].voxels], DOMAIN st.regions)

\* a prediction with background and two tumour classes, analysed
C5_Witness ==
    /\ statPc = "done"
    /\ 0 \in DOMAIN stat.region_counts
    /\ Cardinality(DOMAIN stat.statistics.regions) = 2
    /\ stat.statistics.tumorVoxels > 1

\* C10: regions has exactly one entry per class id > 0 that occurs in the
\* segmentation map, none for class 0 or an absent class; ids 1, 2, 3 are named
\* NCR/NET, Edema, Enhancing Tumor, any other id "Class <id>"; an entry's voxels
\* is the number of voxels of its class; an all-background prediction gives
\* tumorVoxels = 0 and no regions.
C10_RegionsPerPresentClass ==
    statPc = "done" =>
        LET rg == stat.statistics.regions
        IN  /\ DOMAIN rg = {c \in ClassesPresent : c > 0}
            /\ \A c \in DOMAIN rg :
                 /\ rg[c].voxels = VoxelsOfClass(c)
                 /\ c = 1 => rg[c].name = "NCR/NET"
                 /\ c = 2 => rg[c].name = "Edema"
                 /\ c = 3 => rg[c].name = "Enhancing Tumor"
                 /\ c > 3 => rg[c].name = "Class " \o ToString(c)
            /\ ClassesPresent = {0} => (stat.statistics.tumorVoxels = 0 /\ DOMAIN rg = {})

\* a prediction holding class 4, which has no label, beside background and a
\* labelled class
C10_Witness ==
    /\ statPc = "done"
    /\ 0 \in ClassesPresent
    /\ 4 \in DOMAIN stat.statistics.regions
    /\ stat.statistics.regions[4].name = "Class 4"
    /\ \E c \in 1..3 : c \in DOMAIN stat.statistics.regions

(***************************************************************************)
(* The server.  load_model, lines 52-63.                                   *)
(* ok tells whether tf.keras.models.load_model returns (TRUE) or raises.   *)
(* The result: the handle afterwards, whether load_model raised, how often *)
(* tf.keras.models.load_model was called and how often it returned.        *)
(***************************************************************************)
\* faulty variant: without `global model` the loaded model is never stored
load_model_not_stored(m, ok) ==
    IF m = None
    THEN [model |-> None, raised |-> ~ok, calls |-> 1, done |-> IF ok THEN 1 ELSE 0]
    ELSE [model |-> m, raised |-> FALSE, calls |-> 0, done |-> 0]

\* faulty variant: the exception of a failed load is swallowed
load_model_swallowing(m, ok) ==
    IF m = None
    THEN [model |-> IF ok THEN Loaded ELSE None, raised |-> FALSE, calls |-> 1, done |-> IF ok THEN 1 ELSE 0]
    ELSE [model |-> m, raised |-> FALSE, calls |-> 0, done |-> 0]

load_model(m, ok) ==
    IF m = None
    THEN IF ok
         THEN [model |-> Loaded, raised |-> FALSE, calls |-> 1, done |-> 1]
         ELSE [model |-> None, raised |-> TRUE, calls |-> 1, done |-> 0]
    ELSE [model |-> m, raised |-> FALSE, calls |-> 0, done |-> 0]

(***************************************************************************)
(* parse_nifti, lines 99-107.  An upload is the bytes of one modality:     *)
(* well-formed bytes decode to an array of the shape they declare, any     *)
(* failure of nibabel is raised again as ValueError.                       *)
(***************************************************************************)
\* faulty variant: a failure to decode is swallowed and an empty volume returned
parse_nifti_lenient(content) == [raised |-> FALSE, shape |-> IF content.wellFormed THEN content.shape ELSE <<1, 1, 1>>]

parse_nifti(content) ==
    IF content.wellFormed
    THEN [raised |-> FALSE, shape |-> content.shape]
    ELSE [raised |-> TRUE, shape |-> <<>>]

\* np.stack(arrays, axis=-1) raises ValueError unless all arrays have one shape
np_stack(shapes) ==
    IF \A i \in 1..Len(shapes) : shapes[i] = shapes[1]
    THEN [raised |-> FALSE, shape |-> shapes[1] \o <<Len(shapes)>>]
    ELSE [raised |-> TRUE, shape |-> <<>>]

\* np.expand_dims(stacked, axis=0)
expand_dims(shape) == <<1>> \o shape

\* faulty variant: a failed forward pass is tried once more
model_predict_retried(m, engine) ==
    IF m = None THEN [raised |-> TRUE, error |-> "AttributeError", calls |-> 0, out |-> <<>>]
    ELSE IF engine.raises THEN [raised |-> TRUE, error |-> "InferenceError", calls |-> 2, out |-> <<>>]
    ELSE [raised |-> FALSE, error |-> "none", calls |-> 1, out |-> engine.out]

\* model.predict(input_tensor, verbose=0), line 176: the engine raises or
\* returns a class-probability tensor; with no engine the call itself fails
model_predict(m, engine) ==
    IF m = None THEN [raised |-> TRUE, error |-> "AttributeError", calls |-> 0, out |-> <<>>]
    ELSE IF engine.raises THEN [raised |-> TRUE, error |-> "InferenceError", calls |-> 1, out |-> <<>>]
    ELSE [raised |-> FALSE, error |-> "none", calls |-> 1, out |-> engine.out]

(***************************************************************************)
(* The response of one /predict request and what ran to produce it: the    *)
(* stages run per modality, the shape handed to the engine, the calls of   *)
(* model.predict.                                                          *)
(***************************************************************************)
NoStats == <<>>
NoUploads == <<>>

Failure(error, ran, uploads, shapes, tensor, calls) ==
    [success |-> FALSE, error |-> error, ran |-> ran, uploads |-> uploads,
     shapes |-> shapes, tensor |-> tensor, inferCalls |-> calls,
     prediction |-> <<>>, statistics |-> NoStats]

\* the stage run on the modalities 1..n, in the order of the code
RanStage(stage, n) == {<<stage, Modalities[i]>> : i \in 1..n}

\* the first index at which a step raised, 0 when none did
FirstRaised(results) ==
    IF \E i \in 1..Len(results) : results[i].raised
    THEN Min({i \in 1..Len(results) : results[i].raised})
    ELSE 0

\* predict from line 145 on: everything after the last await, up to the
\* response (lines 151-231)
predict_pipeline(m, uploads, engine) ==
    LET parsed == [i \in 1..NumModalities |-> parse_nifti(uploads[i])]
        badParse == FirstRaised(parsed)
        ranDecode == RanStage("decode", IF badParse = 0 THEN NumModalities ELSE badParse)
        sized == [i \in 1..NumModalities |-> resize_volume(parsed[i].shape, target_shape)]
        badSize == FirstRaised(sized)
        ranNorm == ranDecode \cup RanStage("normalize", NumModalities)
        ranSize == ranNorm \cup RanStage("resample", IF badSize = 0 THEN NumModalities ELSE badSize)
        shapes == [i \in 1..NumModalities |-> sized[i].shape]
        stacked == np_stack(shapes)
        ranStack == ranSize \cup {<<"stack", "all">>}
        tensor == expand_dims(stacked.shape)
        inferred == model_predict(m, engine)
        ranInfer == ranStack \cup (IF inferred.calls > 0 THEN {<<"inference", "all">>} ELSE {})
        stats == statistics_block(inferred.out, target_shape)
    IN  IF badParse # 0 THEN Failure("DecodeError", ranDecode, uploads, <<>>, <<>>, 0)
        ELSE IF badSize # 0 THEN Failure("IndexError", ranSize, uploads, <<>>, <<>>, 0)
        ELSE IF stacked.raised THEN Failure("ShapeMismatchError", ranStack, uploads, shapes, <<>>, 0)
        ELSE IF inferred.raised THEN Failure(inferred.error, ranInfer, uploads, shapes, tensor, inferred.calls)
        ELSE [success |-> TRUE, error |-> "none",
              ran |-> ranInfer \cup {<<"statistics", "all">>},
              uploads |-> uploads, shapes |-> shapes, tensor |-> tensor,
              inferCalls |-> inferred.calls,
              prediction |-> stats.prediction, statistics |-> stats.statistics]

(***************************************************************************)
(* Spec: the server.  The handlers are coroutines of one event loop: a     *)
(* step is the code of one handler between two awaits.  startup_event has  *)
(* no await, predict awaits the four uploads (lines 146-149).  The serving *)
(* loop runs startup_event, if at all, before it accepts a request.        *)
(***************************************************************************)
Requests == 1..MaxRequests

UploadSamples ==
    {[wellFormed |-> FALSE, shape |-> <<>>],
     [wellFormed |-> TRUE, shape |-> <<64, 64>>],
     [wellFormed |-> TRUE, shape |-> <<240, 240, 155>>]}

\* what model.predict does: it raises, or returns a tensor of the engine's
\* output shape (128,128,96,C), here of one class everywhere
EngineSamples ==
    {[raises |-> TRUE, out |-> <<>>]}
        \cup {[raises |-> FALSE, out |-> [classes |-> 5, runs |-> <<<<OneHot(5, k), GridVoxels>>>>]] :
                 k \in {0, 3, 4}}

NoTrace == <<>>

Init ==
    /\ model = None
    /\ loadCalls = 0 /\ loadsDone = 0
    /\ started = FALSE
    /\ pc = [r \in Requests |-> "idle"]
    /\ trace = NoTrace
    /\ NormIdle /\ ResizeIdle /\ StatsIdle

\* lines 109-116: the failure of the load is printed and swallowed
startup_event ==
    /\ ~started
    /\ \A r \in Requests : pc[r] = "idle"
    /\ \E ok \in BOOLEAN :
         LET res == load_model(model, ok)
         IN  /\ model' = res.model
             /\ loadCalls' = loadCalls + res.calls
             /\ loadsDone' = loadsDone + res.done
    /\ started' = TRUE
    /\ UNCHANGED <<pc, trace, normVars, resizeVars, statsVars>>

\* lines 140-146: a request enters predict, loads the model when there is
\* none, and reaches the first await; a failed load ends the request in the
\* handler of line 224
predict_enter(r) ==
    /\ pc[r] = "idle"
    /\ \E ok \in BOOLEAN :
         LET res == IF model = None
                    THEN load_model(model, ok)
                    ELSE [model |-> model, raised |-> FALSE, calls |-> 0, done |-> 0]
         IN  /\ model' = res.model
             /\ loadCalls' = loadCalls + res.calls
             /\ loadsDone' = loadsDone + res.done
             /\ IF res.raised
                THEN /\ pc' = [pc EXCEPT ![r] = "done"]
                     /\ trace' = Failure("EngineUnavailableError", {}, NoUploads, <<>>, <<>>, 0)
                ELSE /\ pc' = [pc EXCEPT ![r] = "reading"]
                     /\ trace' = trace
    /\ UNCHANGED <<started, normVars, resizeVars, statsVars>>

\* lines 146-231: the uploads are read and the rest of predict runs to its
\* response without another await
predict_run(r) ==
    /\ pc[r] = "reading"
    /\ \E uploads \in [1..NumModalities -> UploadSamples], engine \in EngineSamples :
         trace' = predict_pipeline(model, uploads, engine)
    /\ pc' = [pc EXCEPT ![r] = "done"]
    /\ UNCHANGED <<model, loadCalls, loadsDone, started, normVars, resizeVars, statsVars>>

Next ==
    \/ startup_event
    \/ \E r \in Requests : predict_enter(r)
    \/ \E r \in Requests : predict_run(r)

Spec == Init /\ [][Next]_vars

(***************************************************************************)
(* The claims about the server.                                            *)
(***************************************************************************)
\* C1 as stated: whatever the interleaving of startup_event and the requests,
\* the body of load_model that calls tf.keras.models.load_model executes at
\* most once in total.
C1_LoadBodyRunsAtMostOnce == loadCalls <= 1

\* C1 as amended: the load completes (tf.keras.models.load_model returns and
\* model is assigned) at most once in total, no load is attempted once the
\* handle is set, and the handle is None or the loaded model, nothing else.
C1_LoadCompletesAtMostOnce ==
    /\ [](/\ model \in {None, Loaded}
          /\ loadsDone <= 1
          /\ (model = Loaded <=> loadsDone = 1))
    /\ [][model = Loaded => (model' = Loaded /\ loadCalls' = loadCalls /\ loadsDone' = loadsDone)]_vars

\* the load failed at startup, one request loaded the model, and every request
\* is in flight at once
C1_Witness ==
    /\ started
    /\ loadCalls = 2 /\ loadsDone = 1
    /\ \A r \in Requests : pc[r] = "reading"

\* C2: a request that finds no model loads it before anything else; when the
\* load fails the request ends in a failure, nothing of the pipeline has run,
\* model.predict was not called, and the handle is still None (the next
\* request loads again); no request is past the check without a model.
C2_NoInferenceWithoutEngine ==
    /\ [](/\ \A r \in Requests : pc[r] = "reading" => model = Loaded
          /\ (trace # NoTrace /\ trace.inferCalls > 0) => model = Loaded
          /\ (trace # NoTrace /\ trace.error = "EngineUnavailableError") =>
                /\ ~trace.success
                /\ trace.ran = {} /\ trace.inferCalls = 0
                /\ trace.statistics = NoStats /\ trace.prediction = <<>>)
    /\ [][\A r \in Requests :
            /\ (pc[r] = "idle" /\ pc'[r] # "idle" /\ model = None) => loadCalls' = loadCalls + 1
            /\ (pc[r] = "idle" /\ pc'[r] = "done") =>
                  /\ model = None /\ model' = None
                  /\ ~trace'.success /\ trace'.error = "EngineUnavailableError"]_vars

\* the load has failed at startup and again in every request
C2_Witness ==
    /\ started /\ model = None
    /\ loadCalls = 1 + MaxRequests
    /\ \A r \in Requests : pc[r] = "done"
    /\ trace # NoTrace /\ trace.error = "EngineUnavailableError"

Malformed(uploads) == {i \in 1..Len(uploads) : ~uploads[i].wellFormed}

C4_InferenceNotRetried ==
    trace # NoTrace =>
        /\ trace.inferCalls <= 1
        /\ (trace.inferCalls > 0 /\ ~trace.success) =>
              /\ trace.error = "InferenceError"
              /\ <<"statistics", "all">> \notin trace.ran
              /\ trace.prediction = <<>> /\ trace.statistics = NoStats
        /\ trace.success => trace.inferCalls = 1

\* the engine raised on a tensor of the contract's shape
C4_Witness ==
    /\ trace # NoTrace
    /\ trace.error = "InferenceError"
    /\ trace.tensor = <<1, 128, 128, 96, 4>>

\* C9: whenever one of the four resampled volumes has another shape than
\* (128,128,96) the stacking step fails with a shape-mismatch error: no tensor
\* is built, model.predict is not called, the request fails.
C9_StackRejectsNonTargetShape ==
    (trace # NoTrace /\ trace.shapes # <<>>
       /\ \E i \in 1..Len(trace.shapes) : trace.shapes[i] # target_shape) =>
        /\ ~trace.success /\ trace.error = "ShapeMismatchError"
        /\ trace.tensor = <<>> /\ trace.inferCalls = 0

====
